---- MODULE Spec2Model ----
(***************************************************************************)
(* Model of src/main.py: an in-memory item store (a list of Item records   *)
(* and the next_id counter) behind five HTTP handlers.                     *)
(*                                                                         *)
(* Spec      every handler runs to completion before the next one starts   *)
(*           (serialized request handling).                                *)
(* SpecConc  two create_item handlers run in threads and interleave at     *)
(*           statement granularity, with no lock.                          *)
(*                                                                         *)
(* A str is a sequence of one-character strings; an Optional value is a    *)
(* sequence of length at most one (<<>> is None).                          *)
(***************************************************************************)
EXTENDS Integers, Sequences, FiniteSets, TLC

\* ------------------------------------------------------------------ bounds
\* create_item stops being called once next_id exceeds this
MaxCreates == 3
\* SpecConc: a thread stops taking requests once next_id exceeds this
MaxRaceCreates == 2

\* ------------------------------------------------------------------ inputs
Whitespace == {" ", "\t", "\n"}

\* the names requests submit: the spec's scenarios ("Pen" then "pen",
\* " widget " then "Widget") and a name that strip() empties
Names ==
    { <<"P", "e", "n">>,
      <<"p", "e", "n">>,
      <<" ", "w", "i", "d", "g", "e", "t", " ">>,
      <<"W", "i", "d", "g", "e", "t">>,
      <<" ">> }

Descriptions == {<<>>, <<"d">>}

\* ids a get or a delete asks for: MaxCreates + 1 is never assigned
Ids == 1 .. (MaxCreates + 1)

Threads == {1, 2}

APP_ENV == "dev"

\* ------------------------------------------------------------------- state
VARIABLES
    items,      \* the module-level list of Item
    next_id,    \* the module-level counter
    request,    \* the request handled last
    response,   \* its status code, error detail and body
    created,    \* history: every item ever created, as submitted, in creation order
    deleted,    \* history: the ids of the successful deletes
    pc,         \* SpecConc: the statement each create_item thread is at
    arg,        \* SpecConc: each thread's ItemCreate parameter
    new_item,   \* SpecConc: each thread's local new_item
    overlap     \* SpecConc: some handler started while the other was running

vars == <<items, next_id, request, response, created, deleted, pc, arg, new_item, overlap>>

store == <<items, next_id>>

history == <<created, deleted>>

threads == <<pc, arg, new_item, overlap>>

\* ------------------------------------------------------------------ models
Item(id, name, description) == [id |-> id, name |-> name, description |-> description]

ItemCreate(name, description) == [name |-> name, description |-> description]

\* ---------------------------------------------------------------- functions
lower(c) ==
    CASE c = "P" -> "p"
      [] c = "W" -> "w"
      [] OTHER   -> c

RECURSIVE lstrip(_)
lstrip(s) == IF s # <<>> /\ Head(s) \in Whitespace THEN lstrip(Tail(s)) ELSE s

RECURSIVE rstrip(_)
rstrip(s) ==
    IF s # <<>> /\ s[Len(s)] \in Whitespace THEN rstrip(SubSeq(s, 1, Len(s) - 1)) ELSE s

strip(s) == rstrip(lstrip(s))

normalize_name(name) == LET stripped == strip(name)
                        IN  [i \in 1 .. Len(stripped) |-> lower(stripped[i])]

\* the first item whose id matches, or None
find_item(its, item_id) ==
    LET hits == {i \in 1 .. Len(its) : its[i].id = item_id}
    IN  IF hits = {} THEN <<>>
        ELSE <<its[CHOOSE i \in hits : \A j \in hits : i <= j]>>

\* variant: the stored name is compared as stored, not normalized
ensure_unique_name_RawStored(its, name) ==
    LET normalized == normalize_name(name)
    IN  \A i \in 1 .. Len(its) : its[i].name # normalized

\* variant: the candidate name is compared as submitted, not normalized
ensure_unique_name_RawCandidate(its, name) ==
    \A i \in 1 .. Len(its) : normalize_name(its[i].name) # name

\* TRUE when the function returns, FALSE when it raises HTTPException(400)
ensure_unique_name(its, name) ==
    LET normalized == normalize_name(name)
    IN  \A i \in 1 .. Len(its) : normalize_name(its[i].name) # normalized

\* variant: items.pop() in place of items.remove(item)
remove_Pop(its, x) == SubSeq(its, 1, Len(its) - 1)

\* list.remove(x): drops the first element equal to x
remove(its, x) ==
    LET hits == {i \in 1 .. Len(its) : its[i] = x}
        k    == CHOOSE i \in hits : \A j \in hits : i <= j
    IN  SubSeq(its, 1, k - 1) \o SubSeq(its, k + 1, Len(its))

Response(status, detail, body) == [status |-> status, detail |-> detail, body |-> body]

\* --------------------------------------------------------------- endpoints
health_check ==
    /\ request' = [op |-> "health"]
    /\ response' = Response(200, "", <<[status |-> "ok", env |-> APP_ENV]>>)
    /\ UNCHANGED <<store, history, threads>>

get_items ==
    /\ request' = [op |-> "list"]
    /\ response' = Response(200, "", items)
    /\ UNCHANGED <<store, history, threads>>

\* variant: id=len(items) + 1 in place of id=next_id
create_item_LenId(name, description) ==
    /\ request' = [op |-> "create", name |-> name, description |-> description]
    /\ IF ~ensure_unique_name(items, name)
       THEN /\ response' = Response(400, "Item with this name already exists", <<>>)
            /\ UNCHANGED <<store, history>>
       ELSE /\ next_id <= MaxCreates
            /\ LET item == Item(Len(items) + 1, name, description)
               IN  /\ items' = Append(items, item)
                   /\ next_id' = next_id + 1
                   /\ response' = Response(201, "", <<item>>)
                   /\ created' = Append(created, [id |-> Len(items) + 1, name |-> name,
                                                  description |-> description])
                   /\ UNCHANGED deleted
    /\ UNCHANGED threads

\* variant: next_id += 1 placed before ensure_unique_name(item.name)
create_item_IncrFirst(name, description) ==
    /\ request' = [op |-> "create", name |-> name, description |-> description]
    /\ next_id <= MaxCreates
    /\ next_id' = next_id + 1
    /\ IF ~ensure_unique_name(items, name)
       THEN /\ response' = Response(400, "Item with this name already exists", <<>>)
            /\ UNCHANGED <<items, history>>
       ELSE LET item == Item(next_id, name, description)
            IN  /\ items' = Append(items, item)
                /\ response' = Response(201, "", <<item>>)
                /\ created' = Append(created, [id |-> next_id, name |-> name,
                                               description |-> description])
                /\ UNCHANGED deleted
    /\ UNCHANGED threads

\* variant: items.insert(0, new_item) in place of items.append(new_item)
create_item_InsertFront(name, description) ==
    /\ request' = [op |-> "create", name |-> name, description |-> description]
    /\ IF ~ensure_unique_name(items, name)
       THEN /\ response' = Response(400, "Item with this name already exists", <<>>)
            /\ UNCHANGED <<store, history>>
       ELSE /\ next_id <= MaxCreates
            /\ LET item == Item(next_id, name, description)
               IN  /\ items' = <<item>> \o items
                   /\ next_id' = next_id + 1
                   /\ response' = Response(201, "", <<item>>)
                   /\ created' = Append(created, [id |-> next_id, name |-> name,
                                                  description |-> description])
                   /\ UNCHANGED deleted
    /\ UNCHANGED threads

\* variant: name=normalize_name(item.name) in place of name=item.name
create_item_StoreNormalized(name, description) ==
    /\ request' = [op |-> "create", name |-> name, description |-> description]
    /\ IF ~ensure_unique_name(items, name)
       THEN /\ response' = Response(400, "Item with this name already exists", <<>>)
            /\ UNCHANGED <<store, history>>
       ELSE /\ next_id <= MaxCreates
            /\ LET item == Item(next_id, normalize_name(name), description)
               IN  /\ items' = Append(items, item)
                   /\ next_id' = next_id + 1
                   /\ response' = Response(201, "", <<item>>)
                   /\ created' = Append(created, [id |-> next_id, name |-> name,
                                                  description |-> description])
                   /\ UNCHANGED deleted
    /\ UNCHANGED threads

\* variant: next_id += 1 left out
create_item_NoIncr(name, description) ==
    /\ request' = [op |-> "create", name |-> name, description |-> description]
    /\ IF ~ensure_unique_name(items, name)
       THEN /\ response' = Response(400, "Item with this name already exists", <<>>)
            /\ UNCHANGED <<store, history>>
       ELSE /\ next_id <= MaxCreates
            /\ LET item == Item(next_id, name, description)
               IN  /\ items' = Append(items, item)
                   /\ next_id' = next_id
                   /\ response' = Response(201, "", <<item>>)
                   /\ created' = Append(created, [id |-> next_id, name |-> name,
                                                  description |-> description])
                   /\ UNCHANGED deleted
    /\ UNCHANGED threads

create_item(name, description) ==
    /\ request' = [op |-> "create", name |-> name, description |-> description]
    /\ IF ~ensure_unique_name(items, name)
       THEN /\ response' = Response(400, "Item with this name already exists", <<>>)
            /\ UNCHANGED <<store, history>>
       ELSE /\ next_id <= MaxCreates
            /\ LET item == Item(next_id, name, description)
               IN  /\ items' = Append(items, item)
                   /\ next_id' = next_id + 1
                   /\ response' = Response(201, "", <<item>>)
                   /\ created' = Append(created, [id |-> next_id, name |-> name,
                                                  description |-> description])
                   /\ UNCHANGED deleted
    /\ UNCHANGED threads

get_item(item_id) ==
    /\ request' = [op |-> "get", id |-> item_id]
    /\ LET item == find_item(items, item_id)
       IN  IF item = <<>>
           THEN response' = Response(404, "Item not found", <<>>)
           ELSE response' = Response(200, "", item)
    /\ UNCHANGED <<store, history, threads>>

\* variant: del items[item_id - 1], the id taken for a position in the list
delete_item_ByIndex(item_id) ==
    /\ request' = [op |-> "delete", id |-> item_id]
    /\ LET item == find_item(items, item_id)
       IN  IF item = <<>>
           THEN /\ response' = Response(404, "Item not found", <<>>)
                /\ UNCHANGED <<store, history>>
           ELSE /\ LET k == IF item_id <= Len(items) THEN item_id ELSE Len(items)
                   IN  items' = SubSeq(items, 1, k - 1) \o SubSeq(items, k + 1, Len(items))
                /\ response' = Response(204, "", <<>>)
                /\ deleted' = deleted \cup {item_id}
                /\ UNCHANGED <<next_id, created>>
    /\ UNCHANGED threads

delete_item(item_id) ==
    /\ request' = [op |-> "delete", id |-> item_id]
    /\ LET item == find_item(items, item_id)
       IN  IF item = <<>>
           THEN /\ response' = Response(404, "Item not found", <<>>)
                /\ UNCHANGED <<store, history>>
           ELSE /\ items' = remove(items, item[1])
                /\ response' = Response(204, "", <<>>)
                /\ deleted' = deleted \cup {item_id}
                /\ UNCHANGED <<next_id, created>>
    /\ UNCHANGED threads

\* ------------------------------------------------------------ serial system
Init ==
    /\ items = <<>>
    /\ next_id = 1
    /\ request = [op |-> "none"]
    /\ response = Response(0, "", <<>>)
    /\ created = <<>>
    /\ deleted = {}
    /\ pc = [t \in Threads |-> "idle"]
    /\ arg = [t \in Threads |-> <<>>]
    /\ new_item = [t \in Threads |-> <<>>]
    /\ overlap = FALSE

HealthCheck == health_check

GetItems == get_items

CreateItem == \E name \in Names, description \in Descriptions : create_item(name, description)

GetItem == \E item_id \in Ids : get_item(item_id)

DeleteItem == \E item_id \in Ids : delete_item(item_id)

Next ==
    \/ HealthCheck
    \/ GetItems
    \/ CreateItem
    \/ GetItem
    \/ DeleteItem

Spec == Init /\ [][Next]_vars

\* ------------------------------------------------- create_item, by statement
\* a thread takes a POST /items request
begin_create(t, name, description) ==
    /\ pc[t] = "idle"
    /\ next_id <= MaxRaceCreates
    /\ arg' = [arg EXCEPT ![t] = <<ItemCreate(name, description)>>]
    /\ pc' = [pc EXCEPT ![t] = "check"]
    /\ overlap' = (overlap \/ \E u \in Threads \ {t} : pc[u] # "idle")
    /\ UNCHANGED <<store, new_item, request, response, history>>

\* variant: the duplicate is found but the exception is not raised
check_name_NoRaise(t) ==
    /\ pc[t] = "check"
    /\ pc' = [pc EXCEPT ![t] = "build"]
    /\ UNCHANGED <<store, arg, new_item, overlap, request, response, history>>

\* ensure_unique_name(item.name)
check_name(t) ==
    /\ pc[t] = "check"
    /\ IF ensure_unique_name(items, arg[t][1].name)
       THEN /\ pc' = [pc EXCEPT ![t] = "build"]
            /\ UNCHANGED arg
       ELSE /\ pc' = [pc EXCEPT ![t] = "idle"]
            /\ arg' = [arg EXCEPT ![t] = <<>>]
    /\ UNCHANGED <<store, new_item, overlap, request, response, history>>

\* new_item = Item(id=next_id, ...)
build_item(t) ==
    /\ pc[t] = "build"
    /\ new_item' = [new_item EXCEPT
                      ![t] = <<Item(next_id, arg[t][1].name, arg[t][1].description)>>]
    /\ pc' = [pc EXCEPT ![t] = "append"]
    /\ UNCHANGED <<store, arg, overlap, request, response, history>>

\* items.append(new_item)
append_item(t) ==
    /\ pc[t] = "append"
    /\ items' = Append(items, new_item[t][1])
    /\ pc' = [pc EXCEPT ![t] = "incr"]
    /\ UNCHANGED <<next_id, arg, new_item, overlap, request, response, history>>

\* next_id += 1; return new_item
incr_next_id(t) ==
    /\ pc[t] = "incr"
    /\ next_id' = next_id + 1
    /\ pc' = [pc EXCEPT ![t] = "idle"]
    /\ arg' = [arg EXCEPT ![t] = <<>>]
    /\ new_item' = [new_item EXCEPT ![t] = <<>>]
    /\ UNCHANGED <<items, overlap, request, response, history>>

BeginCreate ==
    \E t \in Threads, name \in Names, description \in Descriptions :
        begin_create(t, name, description)

CheckName == \E t \in Threads : check_name(t)

BuildItem == \E t \in Threads : build_item(t)

AppendItem == \E t \in Threads : append_item(t)

IncrNextId == \E t \in Threads : incr_next_id(t)

NextConc ==
    \/ BeginCreate
    \/ CheckName
    \/ BuildItem
    \/ AppendItem
    \/ IncrNextId

SpecConc == Init /\ [][NextConc]_vars

\* ================================================================== claims
Positions(its) == 1 .. Len(its)

IsCreate(req) == req.op = "create"

IsGet(req) == req.op = "get"

IsDelete(req) == req.op = "delete"

IsList(req) == req.op = "list"

SameNormalized(a, b) == normalize_name(a) = normalize_name(b)

NotDeleted(c) == c.id \notin deleted

WidgetPadded == <<" ", "w", "i", "d", "g", "e", "t", " ">>

Widget == <<"W", "i", "d", "g", "e", "t">>

\* C1: under serialized handling, no two items in the Store have names that
\* are equal after normalization (strip, then lowercase).
C1_NoDuplicateNames ==
    \A i, j \in Positions(items) :
        i # j => normalize_name(items[i].name) # normalize_name(items[j].name)

\* "Widget" was rejected while " widget " and another item are stored
C1_Witness ==
    /\ Len(items) >= 2
    /\ IsCreate(request) /\ request.name = Widget /\ response.status = 400
    /\ \E i \in Positions(items) : items[i].name = WidgetPadded

\* C2: the k-th successful create is assigned id k and moves the counter by
\* one; no other request (failed create, get, list, delete) moves the counter.
C2_IdsSequential ==
    [][ /\ (IsCreate(request') /\ response'.status = 201)
            => /\ response'.body[1].id = Len(created) + 1
               /\ next_id = Len(created) + 1
               /\ next_id' = next_id + 1
        /\ ~(IsCreate(request') /\ response'.status = 201) => next_id' = next_id
      ]_vars

\* a create got an id above 1 after an earlier item had been deleted
C2_Witness ==
    /\ IsCreate(request) /\ response.status = 201
    /\ response.body[1].id >= 2
    /\ deleted # {}
    /\ Len(items) < Len(created)

\* C3: once id i was created and deleted, every later get or delete of i
\* answers 404 and no later create is assigned i.
C3_DeletedIdsStayGone ==
    [][ \A i \in deleted :
          /\ ((IsGet(request') \/ IsDelete(request')) /\ request'.id = i)
                => response'.status = 404
          /\ (IsCreate(request') /\ response'.status = 201) => response'.body[1].id # i
      ]_vars

\* get of a deleted id answered 404 although an item created after the
\* deletion (it carries the deleted item's normalized name) is stored
C3_Witness ==
    /\ IsGet(request) /\ request.id \in deleted /\ response.status = 404
    /\ \E c \in Positions(created), k \in Positions(items) :
          /\ created[c].id = request.id
          /\ items[k].id > request.id
          /\ SameNormalized(items[k].name, created[c].name)

\* C4: a request answered 400 or 404 leaves the item list and the counter as
\* they were.
C4_ErrorsLeaveStore ==
    [][ response'.status \in {400, 404} => items' = items /\ next_id' = next_id ]_vars

\* a duplicate create was rejected on a non-empty Store
C4_Witness ==
    /\ IsCreate(request) /\ response.status = 400
    /\ items # <<>>

\* C5: a create answers 400 exactly when a stored item has the candidate's
\* normalized name, and 201 otherwise, with an id no earlier item had.
C5_DuplicateIffStored ==
    [][ IsCreate(request') =>
          /\ response'.status \in {201, 400}
          /\ response'.status = 400
                <=> \E k \in Positions(items) : SameNormalized(items[k].name, request'.name)
          /\ response'.status = 201
                => \A c \in Positions(created) : created[c].id # response'.body[1].id
      ]_vars

\* a create succeeded with the normalized name of a deleted item
C5_Witness ==
    /\ IsCreate(request) /\ response.status = 201
    /\ \E c \in Positions(created) :
          /\ created[c].id \in deleted
          /\ created[c].id < response.body[1].id
          /\ SameNormalized(created[c].name, request.name)

\* C6: delete of id i answers 204 exactly when an item with id i is stored
\* (404 otherwise); it then removes that one item, keeps the others in order
\* and unchanged, and keeps the counter.
C6_DeleteRemovesExactlyOne ==
    [][ IsDelete(request') =>
          LET hits == {k \in Positions(items) : items[k].id = request'.id}
          IN  /\ response'.status \in {204, 404}
              /\ response'.status = 204 <=> hits # {}
              /\ response'.status = 204 =>
                    /\ \E k \in hits :
                          items' = SubSeq(items, 1, k - 1) \o SubSeq(items, k + 1, Len(items))
                    /\ \A k \in Positions(items') : items'[k].id # request'.id
                    /\ next_id' = next_id
      ]_vars

\* the item between two others was deleted
C6_Witness ==
    /\ IsDelete(request) /\ response.status = 204
    /\ \E a, b \in Positions(items) :
          items[a].id < request.id /\ request.id < items[b].id

\* C7: list answers 200 with the items created and not yet deleted, in
\* creation order, and changes neither the list nor the counter.
C7_ListIsLiveInOrder ==
    [][ IsList(request') =>
          /\ response'.status = 200
          /\ response'.body = SelectSeq(created, NotDeleted)
          /\ (created = <<>> => response'.body = <<>>)
          /\ items' = items
          /\ next_id' = next_id
      ]_vars

\* a list of two or more items after some delete
C7_Witness ==
    /\ IsList(request) /\ response.status = 200
    /\ Len(response.body) >= 2
    /\ deleted # {}

NoDuplicateIds ==
    \A i, j \in Positions(items) : i # j => items[i].id # items[j].id

\* C8: with interleaved create handlers the Store can hold two items with the
\* same id or the same normalized name; it does so only when handlers
\* overlapped.
C8_DuplicatesOnlyByRace ==
    ~overlap => NoDuplicateIds /\ C1_NoDuplicateNames

\* two stored items share their id and two share their normalized name
C8_Witness ==
    /\ overlap
    /\ \E i, j \in Positions(items) : i # j /\ items[i].id = items[j].id
    /\ \E i, j \in Positions(items) :
          i # j /\ SameNormalized(items[i].name, items[j].name)

\* C9: a stored item keeps the id, name (as submitted) and description it was
\* created with, get returns these, and only the delete of its id removes it.
C9_ItemsImmutable ==
    [][ /\ (IsCreate(request') /\ response'.status = 201) =>
              /\ response'.body[1].name = request'.name
              /\ response'.body[1].description = request'.description
              /\ items'[Len(items')] = response'.body[1]
        /\ \A k \in Positions(items') :
              \E c \in Positions(created') : created'[c] = items'[k]
        /\ (IsGet(request') /\ response'.status = 200) =>
              \E c \in Positions(created') :
                  created'[c].id = request'.id /\ response'.body = <<created'[c]>>
        /\ \A k \in Positions(items) :
              ~(IsDelete(request') /\ request'.id = items[k].id)
                  => \E j \in Positions(items') : items'[j] = items[k]
      ]_vars

\* get returned an item whose name is not in normalized form, after a delete
C9_Witness ==
    /\ IsGet(request) /\ response.status = 200
    /\ response.body[1].name # normalize_name(response.body[1].name)
    /\ response.body[1].description # <<>>
    /\ deleted # {}

\* C10: under serialized handling the stored ids are at least 1, below
\* next_id and strictly increasing along the list, so an id names at most one
\* item and a successful delete leaves no item with the id it looked up.
C10_IdsOrdered ==
    /\ \A k \in Positions(items) : 1 <= items[k].id /\ items[k].id < next_id
    /\ \A j, k \in Positions(items) : j < k => items[j].id < items[k].id
    /\ \A i \in Ids : Cardinality({k \in Positions(items) : items[k].id = i}) <= 1
    /\ (IsDelete(request) /\ response.status = 204) => find_item(items, request.id) = <<>>

\* a delete succeeded and left two items around a gap in the ids
C10_Witness ==
    /\ IsDelete(request) /\ response.status = 204
    /\ Len(items) >= 2
    /\ items[Len(items)].id - items[1].id > Len(items) - 1

====
